---- MODULE Spec2Model ----
(***************************************************************************)
(* The bulk-verification reconciliation worker                             *)
(* (functions/verification-worker/index.ts) as a state machine.            *)
(*                                                                         *)
(* Text is a sequence of one-character strings, so that trimming,          *)
(* lower-casing, splitting and substring search are computed, not assumed. *)
(* The datastore client returns {data, error} and never throws (the code   *)
(* destructures `error` at the two reads and discards the result of every  *)
(* update); fetch() may throw.                                             *)
(***************************************************************************)
EXTENDS Integers, Sequences, FiniteSets, TLC

\* ------------------------------------------------------------------ text

UpperChars == <<"A","B","C","D","E","F","G","H","I","J","K","L","M",
                "N","O","P","Q","R","S","T","U","V","W","X","Y","Z">>
LowerChars == <<"a","b","c","d","e","f","g","h","i","j","k","l","m",
                "n","o","p","q","r","s","t","u","v","w","x","y","z">>
Digits == <<"0","1","2","3","4","5","6","7","8","9">>
WhiteSpace == {" ", "\t", "\n", "\r"}

LowerChar(c) ==
  IF \E i \in DOMAIN UpperChars : UpperChars[i] = c
  THEN LowerChars[CHOOSE i \in DOMAIN UpperChars : UpperChars[i] = c]
  ELSE c

\* String.prototype.toLowerCase
toLowerCase(s) == [i \in DOMAIN s |-> LowerChar(s[i])]

\* String.prototype.trim
trim(s) ==
  LET keep == {i \in DOMAIN s : s[i] \notin WhiteSpace}
  IN IF keep = {} THEN <<>>
     ELSE LET lo == CHOOSE i \in keep : \A j \in keep : i <= j
              hi == CHOOSE i \in keep : \A j \in keep : j <= i
          IN SubSeq(s, lo, hi)

\* String.prototype.indexOf for a one-character needle, 1-based; 0 when absent
\* (JavaScript: 0-based, -1 when absent).
indexOf(s, c) ==
  LET hits == {i \in DOMAIN s : s[i] = c}
  IN IF hits = {} THEN 0 ELSE CHOOSE i \in hits : \A j \in hits : i <= j

\* String.prototype.startsWith
startsWith(s, p) == Len(p) <= Len(s) /\ SubSeq(s, 1, Len(p)) = p

\* String.prototype.includes
includes(s, sub) ==
  \E i \in 1..(Len(s) - Len(sub) + 1) : SubSeq(s, i, i + Len(sub) - 1) = sub

\* String.prototype.split for a one-character separator: always at least one
\* field, empty fields kept.
RECURSIVE split(_, _)
split(s, d) ==
  LET i == indexOf(s, d)
  IN IF i = 0 THEN <<s>>
     ELSE <<SubSeq(s, 1, i - 1)>> \o split(SubSeq(s, i + 1, Len(s)), d)

\* text.split(/\r?\n/): a "\r" right before the "\n" belongs to the separator.
splitLines(s) ==
  LET parts == split(s, "\n")
      strip(p) == IF Len(p) > 0 /\ p[Len(p)] = "\r" THEN SubSeq(p, 1, Len(p) - 1) ELSE p
  IN [i \in DOMAIN parts |-> IF i < Len(parts) THEN strip(parts[i]) ELSE parts[i]]

\* A JavaScript number: an integer value, or NaN.
Num(n) == [nan |-> FALSE, val |-> n]
NaN == [nan |-> TRUE, val |-> 0]

RECURSIVE DecimalValue(_)
DecimalValue(s) ==
  IF s = <<>> THEN 0
  ELSE 10 * DecimalValue(SubSeq(s, 1, Len(s) - 1))
       + (CHOOSE d \in DOMAIN Digits : Digits[d] = s[Len(s)]) - 1

\* Number(string): surrounding white space is ignored, the empty string is 0,
\* a run of decimal digits is its value, anything else here is NaN.
Number(s) ==
  LET t == trim(s)
  IN IF \A i \in DOMAIN t : \E d \in DOMAIN Digits : Digits[d] = t[i]
     THEN Num(DecimalValue(t))
     ELSE NaN

\* a || b on strings: the empty string is falsy.
OrElse(a, b) == IF a = <<>> THEN b ELSE a

\* null and undefined: tokens no text equals (a text holds one-character strings).
Null == <<"null">>
Undefined == <<"undefined">>
Falsy(x) == x \in {<<>>, Null, Undefined}

\* ------------------------------------------------- provider status client

\* A response of fetch(): [kind |-> "throw"] (network failure), or
\* [kind |-> "http", ok |-> BOOLEAN, body |-> text].
Throw == [kind |-> "throw", ok |-> FALSE, body |-> <<>>]
Http(ok, body) == [kind |-> "http", ok |-> ok, body |-> body]

NullInfo == [null |-> TRUE]

At(parts, i) == IF i <= Len(parts) THEN parts[i] ELSE Undefined

MinFields == 7

\* fetchFileInfo: null on an exception, a non-success status or fewer than 7
\* fields; otherwise the fields by position.
fetchFileInfo(res) ==
  IF res.kind = "throw" THEN NullInfo
  ELSE IF ~res.ok THEN NullInfo
  ELSE LET parts == split(trim(res.body), "|")
       IN IF Len(parts) < MinFields THEN NullInfo
          ELSE [null |-> FALSE,
                file_id |-> parts[1],
                filename |-> parts[2],
                unique |-> Number(OrElse(parts[3], <<"0">>)),
                lines |-> Number(OrElse(parts[4], <<"0">>)),
                lines_processed |-> Number(OrElse(parts[5], <<"0">>)),
                status |-> OrElse(parts[6], <<>>),
                timestamp |-> OrElse(parts[7], <<>>),
                link1 |-> At(parts, 8),
                link2 |-> At(parts, 9)]

\* Mutant: any non-empty status text counts as complete.
CompleteAnyStatus(status) == ~Falsy(status)

\* The completion test on the status text.
Complete(status) ==
  LET statusLower == toLowerCase(OrElse(status, <<>>))
  IN \/ includes(statusLower, <<"c","o","m","p","l","e","t","e">>)
     \/ includes(statusLower, <<"f","i","n","i","s","h">>)
     \/ includes(statusLower, <<"r","e","a","d","y">>)

\* ---------------------------------------------------- result list fetcher

HeaderPrefix == <<"e","l","v"," ","r","e","s","u","l","t">>

\* Mutant: the line is split at its last comma.
ParseLineLastComma(line) ==
  LET l == trim(line)
      commas == {i \in DOMAIN l : l[i] = ","}
      idx == IF commas = {} THEN 0 ELSE CHOOSE i \in commas : \A j \in commas : j <= i
      result == toLowerCase(trim(SubSeq(l, 1, idx - 1)))
      email == toLowerCase(trim(SubSeq(l, idx + 1, Len(l))))
  IN IF l = <<>> THEN <<>>
     ELSE IF startsWith(toLowerCase(l), HeaderPrefix) THEN <<>>
     ELSE IF idx = 0 THEN <<>>
     ELSE IF indexOf(email, "@") = 0 THEN <<>>
     ELSE <<[result |-> result, email |-> email]>>

\* The loop body of downloadCsvPairs for one line: the pair it pushes, as a
\* sequence of zero or one pairs.
ParseLine(line) ==
  LET l == trim(line)
      idx == indexOf(l, ",")
      result == toLowerCase(trim(SubSeq(l, 1, idx - 1)))
      email == toLowerCase(trim(SubSeq(l, idx + 1, Len(l))))
  IN IF l = <<>> THEN <<>>
     ELSE IF startsWith(toLowerCase(l), HeaderPrefix) THEN <<>>
     ELSE IF idx = 0 THEN <<>>
     ELSE IF indexOf(email, "@") = 0 THEN <<>>
     ELSE <<[result |-> result, email |-> email]>>

RECURSIVE ParseLines(_)
ParseLines(lines) ==
  IF lines = <<>> THEN <<>> ELSE ParseLine(Head(lines)) \o ParseLines(Tail(lines))

\* downloadCsvPairs once fetch has answered (it is not called for a falsy url).
downloadCsvPairs(url, res) ==
  IF Falsy(url) THEN <<>>
  ELSE IF ~res.ok THEN <<>>
  ELSE ParseLines(splitLines(OrElse(res.body, <<>>)))

\* ------------------------------------------------------------ classifier

OkLabel == <<"o","k">>
badSet == {<<"i","n","v","a","l","i","d","_","s","y","n","t","a","x">>,
           <<"i","n","v","a","l","i","d","_","m","x">>,
           <<"e","m","a","i","l","_","d","i","s","a","b","l","e","d">>,
           <<"d","e","a","d","_","s","e","r","v","e","r">>,
           <<"d","i","s","p","o","s","a","b","l","e">>,
           <<"s","p","a","m","t","r","a","p">>}
unkSet == {<<"u","n","k","n","o","w","n">>,
           <<"o","k","_","f","o","r","_","a","l","l">>,
           <<"a","n","t","i","s","p","a","m","_","s","y","s","t","e","m">>,
           <<"s","m","t","p","_","p","r","o","t","o","c","o","l">>}

\* Array.from(new Set(xs)): first occurrences, in order.
RECURSIVE Dedup(_)
Dedup(xs) ==
  IF xs = <<>> THEN <<>>
  ELSE LET rest == Dedup(SubSeq(xs, 1, Len(xs) - 1))
           x == xs[Len(xs)]
       IN IF \E i \in DOMAIN rest : rest[i] = x THEN rest ELSE Append(rest, x)

Emails(pairs) == [i \in DOMAIN pairs |-> pairs[i].email]
Range(xs) == {xs[i] : i \in DOMAIN xs}

IsOk(p) == p.result = OkLabel
IsBad(p) == p.result \in badSet
IsUnk(p) == p.result \in unkSet

okEmailsOf(okPairs) == Dedup(Emails(SelectSeq(okPairs, IsOk)))
badEmailsOf(allPairs) == Dedup(Emails(SelectSeq(allPairs, IsBad)))
unknownEmailsOf(allPairs) == Dedup(Emails(SelectSeq(allPairs, IsUnk)))

\* ------------------------------------------------- reconciliation engine

\* f.emails lower-cased, or nothing when the column holds no array.
uploadedOf(emails) ==
  IF emails = Null THEN <<>> ELSE [i \in DOMAIN emails |-> toLowerCase(emails[i])]

\* Mutant: the UNRESOLVED emails do not count as known.
knownWithoutUnknown(okEmails, badEmails, unknownEmails) ==
  {toLowerCase(e) : e \in Range(okEmails) \cup Range(badEmails)}

knownOf(okEmails, badEmails, unknownEmails) ==
  {toLowerCase(e) : e \in Range(okEmails) \cup Range(badEmails) \cup Range(unknownEmails)}

NotIn(S, xs) == SelectSeq(xs, LAMBDA e : e \notin S)

\* Mutant: the submitted emails the provider did not report are left alone.
remainingNone(emails, okEmails, badEmails, unknownEmails) == <<>>

remainingUnknownEmails(emails, okEmails, badEmails, unknownEmails) ==
  NotIn(knownOf(okEmails, badEmails, unknownEmails), uploadedOf(emails))

\* Mutant: the lead emails are compared as they are stored.
IdsOfCaseSensitive(allLeads, emailLower) ==
  LET hits == SelectSeq(allLeads,
                        LAMBDA lead : ~Falsy(lead.email) /\ lead.email = emailLower)
  IN [k \in DOMAIN hits |-> hits[k].id]

\* emailToIds.get(emailLower) || []: the ids, in row order, of the fetched
\* leads whose email is truthy and equals emailLower once lower-cased.
IdsOf(allLeads, emailLower) ==
  LET hits == SelectSeq(allLeads,
                        LAMBDA lead : ~Falsy(lead.email)
                                      /\ toLowerCase(lead.email) = emailLower)
  IN [k \in DOMAIN hits |-> hits[k].id]

\* allIds of updateLeadsByEmail.
RECURSIVE AllIds(_, _)
AllIds(allLeads, emails) ==
  IF emails = <<>> THEN <<>>
  ELSE IdsOf(allLeads, toLowerCase(Head(emails))) \o AllIds(allLeads, Tail(emails))

idChunk == 100

\* allIds.slice(i, i + idChunk), i counted from 0.
idSlice(allIds, i) ==
  SubSeq(allIds, i + 1, IF i + idChunk < Len(allIds) THEN i + idChunk ELSE Len(allIds))

\* Mutant: the BAD emails are written as verified_unknown.
GroupStatusBadAsUnknown(g) ==
  <<"verified_ok", "verified_unknown", "verified_unknown", "verified_unknown">>[g]

NumGroups == 4

\* The status written by each of the four calls of updateLeadsByEmail, in
\* program order.
GroupStatus(g) ==
  <<"verified_ok", "verified_bad", "verified_unknown", "verified_unknown">>[g]

\* ------------------------------------------------------------- the world

NumBatches == 2
NumLeads == 4
NumWorkers == 2
\* Polls (calls of fetchFileInfo) in one behaviour of Spec; the clock counts them.
MaxClock == 2

LeadIds == 1..NumLeads
Workers == 1..NumWorkers

Ea == <<"a","@","x">>
EA == <<"A","@","x">>
Eb == <<"b","@","x">>
Ec == <<"c","@","x">>

\* The lead table: two rows of campaign 1 share an email up to letter case,
\* one row of campaign 2 has the same email.
LeadEmail(l) == <<Ea, EA, Eb, Ea>>[((l - 1) % 4) + 1]
LeadCampaign(l) == IF l % 4 = 0 THEN 2 ELSE 1

\* The batch table, in creation order: every batch belongs to campaign 1,
\* c@x matches no lead.
BatchEmails(b) == IF b % 2 = 1 THEN <<EA, Ec>> ELSE <<Ea, Eb>>
BatchCampaign(b) == 1

\* Status lines the provider may answer with.
LineProgress == <<"f","|","l","|","2","|","2","|","1","|","i","n","_","p","r","o","g","r","e","s","s","|","t">>
LineFinished == <<"f","|","l","|","2","|","2","|","2","|","F","i","n","i","s","h","e","d","|","t","|","u","1","|","u","2">>
LineReady == <<" ","f","|","l","|","2","|","2","|","|","R","E","A","D","Y","|","t","|","|","u","2","\n">>
LineShort == <<"e","r","r","o","r","|","n","o"," ","s","u","c","h"," ","f","i","l","e">>
LineNotANumber == <<"f","|","l","|","x","|","2","|","n","/","a","|","i","n","_","p","r","o","g","r","e","s","s","|","t">>

\* Result files the provider may serve.
FileOkA == <<"E","L","V"," ","R","e","s","u","l","t",",","E","m","a","i","l","\r","\n","o","k",",","A","@","x","\r","\n","n","o","t"," ","a"," ","l","i","n","e","\r","\n">>
FileBadB == <<"i","n","v","a","l","i","d","_","m","x",",","b","@","x","\n","o","k",",","a","@","x">>
FileUnkA == <<"u","n","k","n","o","w","n",",","a","@","x","\n","w","e","i","r","d",",","b","@","x">>
FileBadA == <<"s","p","a","m","t","r","a","p",","," ","a","@","x">>
FileBadUnkA == <<"d","e","a","d","_","s","e","r","v","e","r",",","a","@","x","\n","o","k","_","f","o","r","_","a","l","l",",","A","@","x">>

\* What fetch may answer at the status endpoint and at a result link; the
\* state names an answer by its place in these lists.
StatusResponses ==
  <<Throw, Http(FALSE, LineShort), Http(TRUE, LineShort),
    Http(TRUE, LineProgress), Http(TRUE, LineFinished), Http(TRUE, LineReady),
    Http(TRUE, LineNotANumber)>>
FileResponses ==
  <<Http(FALSE, <<>>), Throw, Http(TRUE, <<>>),
    Http(TRUE, FileOkA), Http(TRUE, FileBadB), Http(TRUE, FileUnkA), Http(TRUE, FileBadA),
    Http(TRUE, FileBadUnkA)>>

\* The places of the given responses in a list.
Places(list, S) == {i \in DOMAIN list : list[i] \in S}

\* The descriptor fetchFileInfo returns for each status response.
InfoOf == [i \in DOMAIN StatusResponses |-> fetchFileInfo(StatusResponses[i])]

\* The pairs downloadCsvPairs returns for each file response, for a url that
\* is not empty.
PairsOf ==
  [i \in DOMAIN FileResponses |-> downloadCsvPairs(<<"u">>, FileResponses[i])]

\* ------------------------------------------------------------- the state

VARIABLES
  evf,    \* table email_verification_files: batch id -> row
  leads,  \* table leads: lead id -> row
  clock,  \* the time; new Date() reads it
  wk,     \* per invocation of processBatch: its position and locals
  first,  \* history: per batch, the lead statuses when processed first became true
  env,    \* what the surroundings may do: provider answers, datastore outcomes
  cl      \* the classification of one pair of result files, taken on its own

vars == <<evf, leads, clock, wk, first, env, cl>>

NoStatuses == [l \in LeadIds |-> "none"]

NoResponse == [status |-> 0, body |-> "", n |-> 0]

\* failed, polled, before, listing, dl and issued are history: whether an update
\* request of the batch at hand has failed, the batches polled in this
\* invocation, the lead statuses when the updates of the batch at hand began,
\* how the listing query of this invocation ended ("none" when it was not
\* issued), the place in FileResponses of the answer to the last download,
\* until the lead lookup or the next poll (0 otherwise), and the update
\* requests issued for the batch at hand: call, offset and outcome of each.
IdleW ==
  [pc |-> "idle", files |-> <<>>, k |-> 0, res |-> 0, nowIso |-> 0,
   info |-> NullInfo, okEmails |-> <<>>, badEmails |-> <<>>, unknownEmails |-> <<>>,
   g |-> 0, i |-> 0, resp |-> NoResponse, failed |-> FALSE, polled |-> <<>>,
   before |-> NoStatuses, listing |-> "none", dl |-> 0, issued |-> <<>>]

EvfRow(b) ==
  [campaign_id |-> BatchCampaign(b), file_id |-> b, emails |-> BatchEmails(b),
   processed |-> FALSE, status |-> Null, lines_processed |-> Num(0),
   link1 |-> Null, link2 |-> Null, checked_at |-> 0]

InitLeads ==
  [l \in LeadIds |->
     [campaign_id |-> LeadCampaign(l), email |-> LeadEmail(l),
      verification_status |-> "unverified", verification_checked_at |-> 0]]

\* Nothing is classified on its own.
NoClassification ==
  [pc |-> "off", link1 |-> <<>>, link2 |-> <<>>, emails |-> <<>>,
   okPairs |-> <<>>, allPairs |-> <<>>,
   okEmails |-> <<>>, badEmails |-> <<>>, unknownEmails |-> <<>>,
   remainingUnknownEmails |-> <<>>]

\* The tables with n pending batches, nobody running.
InitStore(n) ==
  /\ evf = [b \in 1..n |-> EvfRow(b)]
  /\ leads = InitLeads
  /\ clock = 0
  /\ wk = [w \in Workers |-> IdleW]
  /\ first = [b \in 1..n |-> [set |-> FALSE, st |-> NoStatuses]]

\* Invocations follow one another; anything else may happen: the provider
\* answers differently from call to call, a download may fail, datastore
\* requests may fail.
Init ==
  /\ InitStore(NumBatches)
  /\ cl = NoClassification
  /\ \E key \in BOOLEAN :
       env = [apiKey |-> key,
              db |-> {"ok", "error"},
              status |-> [b \in 1..NumBatches |-> DOMAIN StatusResponses],
              link1 |-> [b \in 1..NumBatches |-> DOMAIN FileResponses],
              link2 |-> [b \in 1..NumBatches |-> DOMAIN FileResponses],
              workers |-> {1},
              again |-> TRUE,
              serial |-> FALSE,
              maxClock |-> MaxClock,
              halt |-> TRUE]

\* Answers the provider may give when it gives the same answer every time.
FixedStatus == Places(StatusResponses, {Http(TRUE, LineFinished), Http(TRUE, LineProgress)})
FixedLink1 == Places(FileResponses, {Http(TRUE, FileOkA)})
FixedLink2 ==
  Places(FileResponses, {Http(TRUE, FileBadB), Http(TRUE, FileUnkA), Http(TRUE, FileBadA)})

Singletons(S) == {{x} : x \in S}

\* Overlapping invocations, one per worker, over the same pending batches:
\* the provider gives every caller the same status line and result files for
\* a batch, every datastore request succeeds.
FixedEnv(serial) ==
  \E st \in [1..NumBatches -> Singletons(FixedStatus)],
     l1 \in [1..NumBatches -> Singletons(FixedLink1)],
     l2 \in [1..NumBatches -> Singletons(FixedLink2)] :
    env = [apiKey |-> TRUE,
           db |-> {"ok"},
           status |-> st,
           link1 |-> l1,
           link2 |-> l2,
           workers |-> Workers,
           again |-> FALSE,
           serial |-> serial,
           maxClock |-> NumWorkers * NumBatches,
           halt |-> TRUE]

InitOverlap == InitStore(NumBatches) /\ FixedEnv(FALSE) /\ cl = NoClassification

\* As InitOverlap, but a reconciliation (from its first update request to the
\* write of processed) runs from start to end before another one begins.
InitRerun == InitStore(NumBatches) /\ FixedEnv(TRUE) /\ cl = NoClassification

\* Invocations follow one another and every datastore request succeeds; a
\* batch may belong to campaign 1, to campaign 2, whose only lead is a@x, or
\* to a campaign without leads, so that some or all of its emails match no
\* lead.
Campaigns == 1..3

InitUnmatched ==
  /\ \E camp \in [1..NumBatches -> Campaigns] :
       evf = [b \in 1..NumBatches |-> [EvfRow(b) EXCEPT !.campaign_id = camp[b]]]
  /\ leads = InitLeads
  /\ clock = 0
  /\ wk = [w \in Workers |-> IdleW]
  /\ first = [b \in 1..NumBatches |-> [set |-> FALSE, st |-> NoStatuses]]
  /\ cl = NoClassification
  /\ env = [apiKey |-> TRUE,
            db |-> {"ok"},
            status |-> [b \in 1..NumBatches |-> DOMAIN StatusResponses],
            link1 |-> [b \in 1..NumBatches |-> DOMAIN FileResponses],
            link2 |-> [b \in 1..NumBatches |-> DOMAIN FileResponses],
            workers |-> {1},
            again |-> TRUE,
            serial |-> FALSE,
            maxClock |-> MaxClock,
            halt |-> TRUE]

\* One campaign with more leads of one email, letter case aside, than two
\* requests hold; batch 1 is complete and the provider reports that email
\* GOOD in the first file and UNRESOLVED in the second, the status lookup of
\* the other batches fails; any datastore request may fail.
ManyLeads == 2 * idChunk + 1

InitChunks ==
  /\ evf = [b \in 1..NumBatches |-> EvfRow(b)]
  /\ leads = [l \in 1..ManyLeads |->
                [campaign_id |-> 1, email |-> IF l % 2 = 1 THEN Ea ELSE EA,
                 verification_status |-> "unverified", verification_checked_at |-> 0]]
  /\ clock = 0
  /\ wk = [w \in Workers |-> IdleW]
  /\ first = [b \in 1..NumBatches |-> [set |-> FALSE, st |-> NoStatuses]]
  /\ cl = NoClassification
  /\ env = [apiKey |-> TRUE,
            db |-> {"ok", "error"},
            status |-> [b \in 1..NumBatches |->
                          IF b = 1 THEN Places(StatusResponses, {Http(TRUE, LineFinished)})
                          ELSE Places(StatusResponses, {Throw})],
            link1 |-> [b \in 1..NumBatches |-> Places(FileResponses, {Http(TRUE, FileOkA)})],
            link2 |-> [b \in 1..NumBatches |-> Places(FileResponses, {Http(TRUE, FileUnkA)})],
            workers |-> {1},
            again |-> TRUE,
            serial |-> FALSE,
            maxClock |-> NumBatches,
            halt |-> TRUE]

\* .limit(20) of the listing query.
PageLimit == 20

\* One invocation after another, for ever, over one batch more than a listing
\* returns: the status lookup of batches 2 to PageLimit fails every time, the
\* newest batch is complete at the provider, the oldest is one or the other;
\* every datastore request succeeds. The time stands still once it has
\* reached env.maxClock.
LiveBatches == PageLimit + 1

Failing ==
  Places(StatusResponses, {Throw, Http(FALSE, LineShort), Http(TRUE, LineShort)})

InitLive ==
  /\ InitStore(LiveBatches)
  /\ cl = NoClassification
  /\ \E head \in {Failing, Places(StatusResponses, {Http(TRUE, LineFinished)})} :
       env = [apiKey |-> TRUE,
              db |-> {"ok"},
              status |-> [b \in 1..LiveBatches |->
                            IF b = 1 THEN head
                            ELSE IF b = LiveBatches
                              THEN Places(StatusResponses, {Http(TRUE, LineFinished)})
                            ELSE Failing],
              link1 |-> [b \in 1..LiveBatches |-> Places(FileResponses, {Http(TRUE, FileOkA)})],
              link2 |-> [b \in 1..LiveBatches |-> Places(FileResponses, {Http(TRUE, FileBadB)})],
              workers |-> {1},
              again |-> TRUE,
              serial |-> FALSE,
              maxClock |-> 1,
              halt |-> FALSE]

\* ------------------------------------------------------------ batch driver

\* .eq('processed', false).order('created_at'): batch ids are in creation order.
RECURSIVE Pending(_, _)
Pending(rows, b) ==
  IF b \notin DOMAIN rows THEN <<>>
  ELSE (IF rows[b].processed = FALSE THEN <<b>> ELSE <<>>) \o Pending(rows, b + 1)

\* Mutant: the listing query without .eq('processed', false).
SelectProcessedToo(rows) ==
  SubSeq([b \in DOMAIN rows |-> b], 1,
         IF Len(rows) < PageLimit THEN Len(rows) ELSE PageLimit)

\* The listing query with .limit(20).
Select(rows) ==
  LET p == Pending(rows, 1)
  IN SubSeq(p, 1, IF Len(p) < PageLimit THEN Len(p) ELSE PageLimit)

\* .from('leads').select('id,email').eq('campaign_id', c), in id order.
\* Mutant: the leads of every campaign.
LeadsOfAnyCampaign(rows, c, l) ==
  LET ids == SelectSeq([k \in 1..Len(rows) |-> k], LAMBDA k : k >= l)
  IN [k \in DOMAIN ids |-> [id |-> ids[k], email |-> rows[ids[k]].email]]

LeadsOf(rows, c, l) ==
  LET ids == SelectSeq([k \in 1..Len(rows) |-> k],
                       LAMBDA k : k >= l /\ rows[k].campaign_id = c)
  IN [k \in DOMAIN ids |-> [id |-> ids[k], email |-> rows[ids[k]].email]]

allLeadsOf(rows, c) == LeadsOf(rows, c, 1)

Response(status, body, n) == [status |-> status, body |-> body, n |-> n]

\* The batch a worker record is at.
Cur(r) == r.files[r.k]

\* The emails of the g-th call of updateLeadsByEmail for a batch with the
\* given submitted emails.
GroupEmails(emails, okEmails, badEmails, unknownEmails, g) ==
  CASE g = 1 -> okEmails
    [] g = 2 -> badEmails
    [] g = 3 -> unknownEmails
    [] g = 4 -> remainingUnknownEmails(emails, okEmails, badEmails, unknownEmails)

\* allIds of the g-th call; the id, email and campaign of a lead never change,
\* so the rows fetched at line 165 are the rows of the table.
GroupIds(r, g) ==
  AllIds(allLeadsOf(leads, evf[Cur(r)].campaign_id),
         GroupEmails(evf[Cur(r)].emails, r.okEmails, r.badEmails, r.unknownEmails, g))

\* Mutant: a call issues its request also when allIds is empty.
FirstRequestAlways(r, g) == g

\* The first call from the g-th on that issues a request (allIds not empty),
\* or NumGroups + 1 when none does.
RECURSIVE FirstRequest(_, _)
FirstRequest(r, g) ==
  IF g > NumGroups THEN g
  ELSE IF GroupIds(r, g) # <<>> THEN g
  ELSE FirstRequest(r, g + 1)

\* Mutant: a call issues its first chunk only.
AfterRequestFirstChunkOnly(r, g, i) ==
  LET h == FirstRequest(r, g + 1)
  IN IF h > NumGroups THEN [r EXCEPT !.pc = "mark", !.g = 0, !.i = 0]
     ELSE [r EXCEPT !.pc = "update", !.g = h, !.i = 0]

\* Mutant: a failed request ends the loop over the chunks of its call.
AfterRequestStopsOnError(r, g, i) ==
  IF i + idChunk < Len(GroupIds(r, g)) /\ r.issued[Len(r.issued)][3] = "ok"
  THEN [r EXCEPT !.pc = "update", !.g = g, !.i = i + idChunk]
  ELSE LET h == FirstRequest(r, g + 1)
       IN IF h > NumGroups THEN [r EXCEPT !.pc = "mark", !.g = 0, !.i = 0]
          ELSE [r EXCEPT !.pc = "update", !.g = h, !.i = 0]

\* After the g-th call's request at offset i: the next chunk, the next call
\* with ids, or the write of processed.
AfterRequest(r, g, i) ==
  IF i + idChunk < Len(GroupIds(r, g))
  THEN [r EXCEPT !.pc = "update", !.g = g, !.i = i + idChunk]
  ELSE LET h == FirstRequest(r, g + 1)
       IN IF h > NumGroups THEN [r EXCEPT !.pc = "mark", !.g = 0, !.i = 0]
          ELSE [r EXCEPT !.pc = "update", !.g = h, !.i = 0]

\* The loop moves on to the next selected batch, or returns the summary.
NextFile(r) ==
  LET clean == [r EXCEPT !.res = 0, !.nowIso = 0, !.info = NullInfo,
                         !.okEmails = <<>>, !.badEmails = <<>>, !.unknownEmails = <<>>,
                         !.g = 0, !.i = 0, !.failed = FALSE, !.before = NoStatuses,
                         !.dl = 0, !.issued = <<>>]
  IN IF r.k < Len(r.files)
     THEN [clean EXCEPT !.pc = "poll", !.k = r.k + 1]
     ELSE [clean EXCEPT !.pc = "done", !.resp = Response(200, "checked", Len(r.files))]

\* Mutant: no per-batch catch, the exception ends the invocation.
CaughtAbortsTick(r) == [r EXCEPT !.pc = "done", !.resp = Response(500, "error", 0)]

\* The per-batch catch block: log, then on to the next batch.
Caught(r) == NextFile(r)

\* Mutant: an update that does not name processed writes it as false.
UpdateFileClearsProcessed(rows, b, fields) ==
  [rows EXCEPT ![b] = [f \in DOMAIN rows[b] |->
                         IF f \in DOMAIN fields THEN fields[f]
                         ELSE IF f = "processed" THEN FALSE
                         ELSE rows[b][f]]]

\* .update(fields).eq('id', b) on email_verification_files when it succeeds.
UpdateFile(rows, b, fields) ==
  [rows EXCEPT ![b] = [f \in DOMAIN rows[b] |->
                         IF f \in DOMAIN fields THEN fields[f] ELSE rows[b][f]]]

\* Mutant: a lead that already has the status is set back to unverified.
UpdateLeadsToggle(rows, ids, status, at) ==
  [l \in DOMAIN rows |->
     IF l \in Range(ids)
     THEN [rows[l] EXCEPT !.verification_status =
                            IF @ = status THEN "unverified" ELSE status,
                          !.verification_checked_at = at]
     ELSE rows[l]]

\* Mutant: a lead already written at this time keeps its status.
UpdateLeadsFirstWins(rows, ids, status, at) ==
  [l \in DOMAIN rows |->
     IF l \in Range(ids) /\ rows[l].verification_checked_at # at
     THEN [rows[l] EXCEPT !.verification_status = status,
                          !.verification_checked_at = at]
     ELSE rows[l]]

\* .update({verification_status, verification_checked_at}).in('id', ids).
UpdateLeads(rows, ids, status, at) ==
  [l \in DOMAIN rows |->
     IF l \in Range(ids)
     THEN [rows[l] EXCEPT !.verification_status = status,
                          !.verification_checked_at = at]
     ELSE rows[l]]

OrNull(x) == IF Falsy(x) THEN Null ELSE x

\* Mutant: a failed lookup also clears the status text of the row.
InfoFieldsClearStatus(info, nowIso) ==
  IF info.null THEN [status |-> <<>>, checked_at |-> nowIso]
  ELSE [status |-> info.status,
        lines_processed |-> info.lines_processed,
        link1 |-> OrNull(info.link1),
        link2 |-> OrNull(info.link2),
        checked_at |-> nowIso]

\* The fields of the update at lines 113-116 (no descriptor) or 121-130.
InfoFields(info, nowIso) ==
  IF info.null THEN [checked_at |-> nowIso]
  ELSE [status |-> info.status,
        lines_processed |-> info.lines_processed,
        link1 |-> OrNull(info.link1),
        link2 |-> OrNull(info.link2),
        checked_at |-> nowIso]

ProcessedFields == [processed |-> TRUE]

\* Between its first update request for a batch and the write of processed.
Reconciling(r) == r.pc \in {"update", "mark"}

\* Whether invocation w may take a step: always, unless the surroundings keep
\* reconciliations from overlapping (env.serial).
MayStep(w) ==
  /\ w \in env.workers
  /\ env.serial => \A v \in Workers \ {w} : ~Reconciling(wk[v])

\* Mutant: the error of the listing query is not looked at; rows is null, so
\* the invocation answers as with no pending batch.
ListErrorIgnored ==
  [IdleW EXCEPT !.pc = "done", !.listing = "error", !.resp = Response(200, "no files", 0)]

\* Lines 94-97: the listing query failed.
ListError ==
  [IdleW EXCEPT !.pc = "done", !.listing = "error", !.resp = Response(500, "error", 0)]

\* processBatch up to the loop: the key check, the listing, the early returns.
\* Invocations are numbered in the order they begin.
Start(w) ==
  /\ MayStep(w)
  /\ wk[w].pc = "idle" \/ (wk[w].pc = "done" /\ env.again)
  /\ \A v \in Workers : v < w => wk[v].pc # "idle"
  /\ \E out \in env.db :
       LET files == Select(evf)
           r == IF ~env.apiKey
                  THEN [IdleW EXCEPT !.pc = "done", !.resp = Response(500, "missing key", 0)]
                ELSE IF out = "error"
                  THEN ListError
                ELSE IF Len(files) = 0
                  THEN [IdleW EXCEPT !.pc = "done", !.listing = "ok",
                                     !.resp = Response(200, "no files", 0)]
                ELSE [IdleW EXCEPT !.pc = "poll", !.listing = "ok", !.files = files, !.k = 1]
       IN wk' = [wk EXCEPT ![w] = r]
  /\ UNCHANGED <<evf, leads, clock, first, env, cl>>

\* Lines 109-110: fetchFileInfo, then the time is read.
Poll(w) ==
  /\ MayStep(w)
  /\ wk[w].pc = "poll"
  /\ env.halt => clock < env.maxClock
  /\ LET now == IF clock < env.maxClock THEN clock + 1 ELSE clock
     IN /\ \E res \in env.status[Cur(wk[w])] :
             wk' = [wk EXCEPT ![w] = [@ EXCEPT !.pc = "info",
                                               !.res = res,
                                               !.info = InfoOf[res],
                                               !.nowIso = now,
                                               !.dl = 0,
                                               !.polled = Append(@, Cur(wk[w]))]]
        /\ clock' = now
  /\ UNCHANGED <<evf, leads, first, env, cl>>

\* Lines 111-142: the batch row is written; the batch is left when there is no
\* descriptor or the status is not complete.
WriteInfo(w) ==
  LET r == wk[w]
  IN /\ MayStep(w)
     /\ r.pc = "info"
     /\ \E out \in env.db :
          evf' = IF out = "ok"
                 THEN UpdateFile(evf, Cur(r), InfoFields(r.info, r.nowIso))
                 ELSE evf
     /\ wk' = [wk EXCEPT ![w] =
                 IF r.info.null THEN NextFile(r)
                 ELSE IF ~Complete(r.info.status) THEN NextFile(r)
                 ELSE [r EXCEPT !.pc = "link1", !.res = 0]]
     /\ UNCHANGED <<leads, clock, first, env, cl>>

\* What fetch may answer for a link; nothing is fetched for a falsy url, and
\* downloadCsvPairs returns [] as it does for a non-success answer.
Answers(url, served) == IF Falsy(url) THEN {1} ELSE served

\* The pairs downloadCsvPairs returns for url when fetch answers with the
\* i-th file response.
Fetched(url, i) ==
  IF Falsy(url) THEN downloadCsvPairs(url, FileResponses[i]) ELSE PairsOf[i]

\* Mutant: a non-success answer of the first download is an error of the
\* batch.
AfterLink1NonSuccessThrows(r, i) ==
  IF FileResponses[i].kind = "throw" \/ ~FileResponses[i].ok
  THEN [Caught(r) EXCEPT !.dl = i]
  ELSE [r EXCEPT !.pc = "link2", !.dl = i,
                 !.okEmails = okEmailsOf(Fetched(r.info.link1, i))]

\* The invocation after the first download got the i-th answer: an exception
\* goes to the per-batch catch.
AfterLink1(r, i) ==
  IF FileResponses[i].kind = "throw" THEN [Caught(r) EXCEPT !.dl = i]
  ELSE [r EXCEPT !.pc = "link2", !.dl = i,
                 !.okEmails = okEmailsOf(Fetched(r.info.link1, i))]

\* The invocation after the second download got the i-th answer.
AfterLink2(r, i) ==
  IF FileResponses[i].kind = "throw" THEN [Caught(r) EXCEPT !.dl = i]
  ELSE [r EXCEPT !.pc = "leads", !.dl = i,
                 !.badEmails = badEmailsOf(Fetched(r.info.link2, i)),
                 !.unknownEmails = unknownEmailsOf(Fetched(r.info.link2, i))]

\* Lines 145 and 147: the first result file, and the GOOD emails in it.
Download1(w) ==
  LET r == wk[w]
  IN /\ MayStep(w)
     /\ r.pc = "link1"
     /\ \E i \in Answers(r.info.link1, env.link1[Cur(r)]) :
          wk' = [wk EXCEPT ![w] = AfterLink1(r, i)]
     /\ UNCHANGED <<evf, leads, clock, first, env, cl>>

\* Lines 146, 150, 151: the second result file, and the BAD and UNRESOLVED
\* emails in it.
Download2(w) ==
  LET r == wk[w]
  IN /\ MayStep(w)
     /\ r.pc = "link2"
     /\ \E i \in Answers(r.info.link2, env.link2[Cur(r)]) :
          wk' = [wk EXCEPT ![w] = AfterLink2(r, i)]
     /\ UNCHANGED <<evf, leads, clock, first, env, cl>>

Statuses(rows) == [l \in DOMAIN rows |-> rows[l].verification_status]

\* Lines 165-173: the campaign's leads are read; an error is thrown to the
\* per-batch catch.
FetchLeads(w) ==
  LET r == wk[w]
  IN /\ MayStep(w)
     /\ r.pc = "leads"
     /\ \E out \in env.db :
          wk' = [wk EXCEPT ![w] =
                   IF out = "error" THEN Caught(r)
                   ELSE LET g == FirstRequest(r, 1)
                            q == [r EXCEPT !.before = Statuses(leads), !.dl = 0]
                        IN IF g > NumGroups THEN [q EXCEPT !.pc = "mark"]
                           ELSE [q EXCEPT !.pc = "update", !.g = g, !.i = 0]]
     /\ UNCHANGED <<evf, leads, clock, first, env, cl>>

\* Lines 200-206: one update request of updateLeadsByEmail; its result is
\* discarded, so a failed request changes nothing and the loop goes on.
UpdateChunk(w) ==
  LET r == wk[w]
      ids == idSlice(GroupIds(r, r.g), r.i)
  IN /\ MayStep(w)
     /\ r.pc = "update"
     /\ \E out \in env.db :
          /\ leads' = IF out = "ok"
                      THEN UpdateLeads(leads, ids, GroupStatus(r.g), r.nowIso)
                      ELSE leads
          /\ wk' = [wk EXCEPT ![w] =
                      AfterRequest([r EXCEPT !.failed = r.failed \/ out = "error",
                                             !.issued = Append(@, <<r.g, r.i, out>>)],
                                   r.g, r.i)]
     /\ UNCHANGED <<evf, clock, first, env, cl>>

\* Lines 228-231: processed is written; the result is discarded.
MarkProcessed(w) ==
  LET r == wk[w]
      b == Cur(r)
  IN /\ MayStep(w)
     /\ r.pc = "mark"
     /\ \E out \in env.db :
          /\ evf' = IF out = "ok" THEN UpdateFile(evf, b, ProcessedFields) ELSE evf
          /\ first' = IF out = "ok" /\ ~first[b].set
                      THEN [first EXCEPT ![b] = [set |-> TRUE, st |-> Statuses(leads)]]
                      ELSE first
     /\ wk' = [wk EXCEPT ![w] = NextFile(r)]
     /\ UNCHANGED <<leads, clock, env, cl>>

Next ==
  \E w \in Workers :
    \/ Start(w)
    \/ Poll(w)
    \/ WriteInfo(w)
    \/ Download1(w)
    \/ Download2(w)
    \/ FetchLeads(w)
    \/ UpdateChunk(w)
    \/ MarkProcessed(w)

Spec == Init /\ [][Next]_vars

SpecOverlap == InitOverlap /\ [][Next]_vars

SpecRerun == InitRerun /\ [][Next]_vars

SpecUnmatched == InitUnmatched /\ [][Next]_vars

SpecChunks == InitChunks /\ [][Next]_vars

\* The scheduler keeps invoking the function, and an invocation runs on.
SpecLive == InitLive /\ [][Next]_vars /\ WF_vars(Next)

\* ------------------------------------------- the classification on its own

\* Lines 145-151 and 215-219 applied to result files made of up to MaxLines
\* lines "label,email", and to the submitted emails of a batch. The labels
\* are ok, one of badSet, one of unkSet and one of neither set.
MaxLines == 2

EB == <<"B","@","x">>
FileLabels == {OkLabel, <<"i","n","v","a","l","i","d","_","m","x">>, <<"u","n","k","n","o","w","n">>, <<"w","e","i","r","d">>}
FileEmails == {Ea, EB}
FileLines == {label \o <<",">> \o email : label \in FileLabels, email \in FileEmails}

RECURSIVE JoinLines(_)
JoinLines(lines) ==
  IF lines = <<>> THEN <<>>
  ELSE IF Len(lines) = 1 THEN lines[1]
  ELSE lines[1] \o <<"\n">> \o JoinLines(Tail(lines))

\* The bodies of at most n lines.
Bodies(n) == {JoinLines(ls) : ls \in UNION {[1..k -> FileLines] : k \in 0..n}}

InitClassify ==
  /\ InitStore(NumBatches)
  /\ env = [apiKey |-> TRUE, db |-> {"ok"},
            status |-> [b \in 1..NumBatches |-> {}],
            link1 |-> [b \in 1..NumBatches |-> {}],
            link2 |-> [b \in 1..NumBatches |-> {}],
            workers |-> {}, again |-> FALSE, serial |-> FALSE,
            maxClock |-> 0, halt |-> TRUE]
  /\ \E f1 \in Bodies(1), f2 \in Bodies(MaxLines), b \in 1..NumBatches :
       cl = [NoClassification EXCEPT !.pc = "files", !.link1 = f1, !.link2 = f2,
                                     !.emails = BatchEmails(b)]

\* Lines 145-151: both files are parsed, the three email lists are built.
Classify ==
  /\ cl.pc = "files"
  /\ LET okPairs == downloadCsvPairs(<<"u","1">>, Http(TRUE, cl.link1))
         allPairs == downloadCsvPairs(<<"u","2">>, Http(TRUE, cl.link2))
     IN cl' = [cl EXCEPT !.pc = "classified",
                         !.okPairs = okPairs,
                         !.allPairs = allPairs,
                         !.okEmails = okEmailsOf(okPairs),
                         !.badEmails = badEmailsOf(allPairs),
                         !.unknownEmails = unknownEmailsOf(allPairs)]
  /\ UNCHANGED <<evf, leads, clock, wk, first, env>>

\* Lines 215-219: the submitted emails reported in none of the three lists.
Remaining ==
  /\ cl.pc = "classified"
  /\ cl' = [cl EXCEPT !.pc = "done",
                      !.remainingUnknownEmails =
                        remainingUnknownEmails(cl.emails, cl.okEmails, cl.badEmails,
                                               cl.unknownEmails)]
  /\ UNCHANGED <<evf, leads, clock, wk, first, env>>

NextClassify == Classify \/ Remaining

SpecClassify == InitClassify /\ [][NextClassify]_vars

\* ------------------------------------------- the result list fetcher alone

\* downloadCsvPairs on every file of at most MaxFileLines of these lines,
\* joined by "\n" or by "\r\n".
MaxFileLines == 4

\* The lines a file is made of: two valid lines, one of them with spaces and
\* capitals, a valid line with two commas, a header line, a line without a
\* comma, a blank line, a line without an "@", a line with an "@" before the
\* comma only.
RawLines ==
  {<<"o","k",",","a","@","x">>,
   <<" ","I","n","v","a","l","i","d","_","M","X"," ",","," ","B","@","x"," ">>,
   <<"u","n","k","n","o","w","n",",","b","@","x",",","z">>,
   <<"E","L","V"," ","R","e","s","u","l","t",",","e","@","m","a","i","l">>,
   <<"n","o","t"," ","a"," ","l","i","n","e">>,
   <<" ">>,
   <<"o","k",",","n","o","b","o","d","y">>,
   <<"a","@","x",",","o","k">>}

LineBreaks == {<<"\n">>, <<"\r", "\n">>}

RECURSIVE JoinWith(_, _)
JoinWith(lines, sep) ==
  IF lines = <<>> THEN <<>>
  ELSE IF Len(lines) = 1 THEN lines[1]
  ELSE lines[1] \o sep \o JoinWith(Tail(lines), sep)

InitParse ==
  /\ InitStore(NumBatches)
  /\ env = [apiKey |-> TRUE, db |-> {"ok"},
            status |-> [b \in 1..NumBatches |-> {}],
            link1 |-> [b \in 1..NumBatches |-> {}],
            link2 |-> [b \in 1..NumBatches |-> {}],
            workers |-> {}, again |-> FALSE, serial |-> FALSE,
            maxClock |-> 0, halt |-> TRUE]
  /\ \E n \in 0..MaxFileLines :
       \E ls \in [1..n -> RawLines], sep \in LineBreaks :
         cl = [pc |-> "text", lines |-> ls, text |-> JoinWith(ls, sep), pairs |-> <<>>]

\* Lines 57-73: fetch answers with the text, the lines are parsed.
ParseFile ==
  /\ cl.pc = "text"
  /\ cl' = [cl EXCEPT !.pc = "parsed",
                      !.pairs = downloadCsvPairs(<<"u">>, Http(TRUE, cl.text))]
  /\ UNCHANGED <<evf, leads, clock, wk, first, env>>

NextParse == ParseFile

SpecParse == InitParse /\ [][NextParse]_vars

\* ============================================================== claims

Verified == {"verified_ok", "verified_bad", "verified_unknown"}

\* Invocation w takes the step.
Step(w) == wk'[w] # wk[w]

LeadLower(l) == toLowerCase(leads[l].email)

\* The submitted emails of a batch, lower-cased.
Submitted(b) ==
  IF evf[b].emails = Null THEN {}
  ELSE {toLowerCase(evf[b].emails[i]) : i \in DOMAIN evf[b].emails}

\* The leads of the campaign of batch b.
CampaignLeads(b) == {l \in DOMAIN leads : leads[l].campaign_id = evf[b].campaign_id}

\* The positions of processBatch inside the loop over the selected batches.
BatchPcs == {"poll", "info", "link1", "link2", "leads", "update", "mark"}

\* C1: in every reachable state, every lead of the campaign of a batch with
\* processed = true whose lower-cased email is among the batch's submitted
\* emails has a status other than unverified.
C1_ProcessedLeadsVerified ==
  \A b \in DOMAIN evf :
    evf[b].processed =>
      \A l \in CampaignLeads(b) :
        LeadLower(l) \in Submitted(b) => leads[l].verification_status \in Verified

\* C2 as stated: when the write of processed ends a reconciliation in which no
\* update request failed, every lead of the campaign has the status of each
\* group its email is in, and the batch has processed = true.
C2_EachGroupItsStatus ==
  [][\A w \in Workers :
       (wk[w].pc = "mark" /\ Step(w) /\ ~wk[w].failed /\ evf' # evf) =>
         LET r == wk[w]
             b == Cur(r)
             st(l) == leads'[l].verification_status
         IN /\ evf'[b].processed
            /\ \A l \in CampaignLeads(b) :
                 /\ LeadLower(l) \in Range(r.okEmails) => st(l) = "verified_ok"
                 /\ LeadLower(l) \in Range(r.badEmails) => st(l) = "verified_bad"
                 /\ LeadLower(l) \in Range(r.unknownEmails) => st(l) = "verified_unknown"
                 /\ LeadLower(l) \in Submitted(b) \ knownOf(r.okEmails, r.badEmails, r.unknownEmails)
                      => st(l) = "verified_unknown"]_vars

\* C2 amended: as C2, with an email that is in several groups ending with the
\* status written last: UNRESOLVED gives verified_unknown, else BAD gives
\* verified_bad, else GOOD gives verified_ok, else a submitted email gives
\* verified_unknown; the batch has processed = true.
C2_LastGroupWins ==
  [][\A w \in Workers :
       (wk[w].pc = "mark" /\ Step(w) /\ ~wk[w].failed /\ evf' # evf) =>
         LET r == wk[w]
             b == Cur(r)
             st(l) == leads'[l].verification_status
         IN /\ evf'[b].processed
            /\ \A l \in CampaignLeads(b) :
                 IF LeadLower(l) \in Range(r.unknownEmails) THEN st(l) = "verified_unknown"
                 ELSE IF LeadLower(l) \in Range(r.badEmails) THEN st(l) = "verified_bad"
                 ELSE IF LeadLower(l) \in Range(r.okEmails) THEN st(l) = "verified_ok"
                 ELSE IF LeadLower(l) \in Submitted(b) THEN st(l) = "verified_unknown"
                 ELSE TRUE]_vars

\* A reconciliation with an email both GOOD and BAD, and an unaccounted email,
\* has issued all its updates without a failure.
C2_Witness ==
  \E w \in Workers :
    /\ wk[w].pc = "mark" /\ ~wk[w].failed /\ Cur(wk[w]) = 2
    /\ Ea \in Range(wk[w].okEmails) /\ Ea \in Range(wk[w].badEmails)
    /\ leads[1].verification_status = "verified_bad"
    /\ leads[2].verification_status = "verified_bad"
    /\ leads[3].verification_status = "verified_unknown"

\* C3: when an invocation leaves a batch after the lead lookup failed, after
\* one of its update requests failed or after the write of processed failed,
\* the batch has processed = false and the listing query selects it again.
C3_FailedBatchStaysPending ==
  [][\A w \in Workers :
       LET r == wk[w]
       IN (/\ r.pc \in {"leads", "update", "mark"}
           /\ Step(w)
           /\ wk'[w].pc \in {"poll", "done"}
           /\ (r.pc = "leads" \/ r.failed \/ evf' = evf)) =>
            /\ evf'[Cur(r)].processed = FALSE
            /\ Cur(r) \in Range(Select(evf'))]_vars

\* The fields of the trimmed body of a status response.
Fields(res) == split(trim(res.body), "|")

\* The status lookup failed: an exception, a non-success status, or a body
\* with fewer than 7 fields (fewer than 6 separators).
FailedLookup(res) ==
  \/ res.kind = "throw"
  \/ ~res.ok
  \/ Cardinality({i \in DOMAIN trim(res.body) : trim(res.body)[i] = "|"}) < 6

\* The status lookup gave a descriptor whose status text, lower-cased,
\* contains none of complete, finish, ready.
NotCompleteAnswer(res) ==
  /\ ~FailedLookup(res)
  /\ LET s == toLowerCase(Fields(res)[6])
     IN \A sub \in {<<"c","o","m","p","l","e","t","e">>, <<"f","i","n","i","s","h">>, <<"r","e","a","d","y">>} :
          \A i \in 1..(Len(s) - Len(sub) + 1) : SubSeq(s, i, i + Len(sub) - 1) # sub

\* The link in field i of a status response, null when absent or empty.
LinkField(res, i) ==
  IF Len(Fields(res)) >= i /\ Fields(res)[i] # <<>> THEN Fields(res)[i] ELSE Null

\* C8: the step that handles a descriptor whose status is not complete writes
\* status, lines_processed, link1, link2 and checked_at on the batch row (or
\* nothing, when the request fails), leaves processed = false, goes on to the
\* next batch without a download and changes no lead.
C8_NotCompleteOnlySnapshot ==
  [][\A w \in Workers :
       (wk[w].pc = "info" /\ Step(w) /\ NotCompleteAnswer(StatusResponses[wk[w].res])) =>
         LET r == wk[w]
             b == Cur(r)
             res == StatusResponses[r.res]
         IN /\ leads' = leads
            /\ wk'[w].pc \in {"poll", "done"}
            /\ evf'[b].processed = FALSE
            /\ \/ evf' = evf
               \/ evf' = [evf EXCEPT ![b].status = Fields(res)[6],
                                     ![b].lines_processed = r.info.lines_processed,
                                     ![b].link1 = LinkField(res, 8),
                                     ![b].link2 = LinkField(res, 9),
                                     ![b].checked_at = r.nowIso]]_vars

\* A tick has ended after the status in_progress was recorded for batch 1.
C8_Witness ==
  /\ wk[1].pc = "done" /\ wk[1].resp.body = "checked"
  /\ evf[1].status = <<"i","n","_","p","r","o","g","r","e","s","s">>
  /\ evf[1].lines_processed = Num(1)
  /\ evf[1].checked_at = 1
  /\ ~evf[1].processed
  /\ leads = InitLeads

\* C9: the step that handles a failed status lookup changes checked_at of the
\* batch row and nothing else (or nothing, when the request fails): no other
\* field, no other row, no lead; processed stays false; the loop goes on and
\* the tick answers with its summary.
C9_FailedLookupOnlyCheckedAt ==
  [][\A w \in Workers :
       (wk[w].pc = "info" /\ Step(w) /\ FailedLookup(StatusResponses[wk[w].res])) =>
         LET r == wk[w]
             b == Cur(r)
         IN /\ leads' = leads
            /\ evf' = evf \/ evf' = [evf EXCEPT ![b].checked_at = r.nowIso]
            /\ evf'[b].processed = FALSE
            /\ wk'[w].pc \in {"poll", "done"}
            /\ wk'[w].pc = "done" => wk'[w].resp = Response(200, "checked", Len(r.files))]_vars

\* A tick has ended after the lookup of batch 1 failed: only checked_at is set.
C9_Witness ==
  /\ wk[1].pc = "done" /\ wk[1].resp.body = "checked"
  /\ evf[1] = [EvfRow(1) EXCEPT !.checked_at = 1]

\* C10: a step taken for one selected batch changes no other batch's row; a
\* step that leaves a batch, whatever failed, goes to the next selected batch
\* or, after the last one, returns "checked N" with N the number of batches
\* selected; a tick that selected batches ends with every one of them polled.
C10_FailureIsolated ==
  /\ [][\A w \in Workers :
          (wk[w].pc \in BatchPcs /\ Step(w)) =>
            LET r == wk[w]
                q == wk'[w]
            IN /\ \A b \in DOMAIN evf \ {Cur(r)} : evf'[b] = evf[b]
               /\ q.files = r.files
               /\ \/ q.pc \in BatchPcs \ {"poll"} /\ q.k = r.k
                  \/ q.pc = "poll" /\ r.k < Len(r.files) /\ q.k = r.k + 1
                  \/ /\ q.pc = "done" /\ r.k = Len(r.files)
                     /\ q.resp = Response(200, "checked", Len(r.files))]_vars
  /\ [](\A w \in Workers :
          (wk[w].pc = "done" /\ wk[w].files # <<>>) =>
            wk[w].resp = Response(200, "checked", Len(wk[w].files))
            /\ wk[w].polled = wk[w].files)

\* A tick that selected two batches has ended with its summary after the
\* lookup of the first failed and the second was polled.
C10_Witness ==
  /\ wk[1].pc = "done" /\ wk[1].resp = Response(200, "checked", 2)
  /\ wk[1].polled = <<1, 2>>
  /\ evf[1].status = Null /\ evf[1].checked_at = 1
  /\ evf[2].checked_at = 2

\* ------------------------------------------- overlapping invocations

\* What the provider serves for batch b when it gives every caller the same
\* status line and result files.
ServedInfo(b) == InfoOf[CHOOSE i \in env.status[b] : TRUE]
ServedComplete(b) == ~ServedInfo(b).null /\ Complete(ServedInfo(b).status)
ServedOk(b) ==
  Range(okEmailsOf(Fetched(ServedInfo(b).link1, CHOOSE i \in env.link1[b] : TRUE)))
ServedBad(b) ==
  Range(badEmailsOf(Fetched(ServedInfo(b).link2, CHOOSE i \in env.link2[b] : TRUE)))
ServedUnk(b) ==
  Range(unknownEmailsOf(Fetched(ServedInfo(b).link2, CHOOSE i \in env.link2[b] : TRUE)))

\* The status a reconciliation of batch b leaves on lead l, "none" when it
\* does not write the lead.
Outcome(b, l) ==
  IF l \notin CampaignLeads(b) THEN "none"
  ELSE IF LeadLower(l) \in ServedUnk(b) THEN "verified_unknown"
  ELSE IF LeadLower(l) \in ServedBad(b) THEN "verified_bad"
  ELSE IF LeadLower(l) \in ServedOk(b) THEN "verified_ok"
  ELSE IF LeadLower(l) \in Submitted(b) THEN "verified_unknown"
  ELSE "none"

\* The complete batches whose reconciliation writes lead l.
Writers(l) == {b \in DOMAIN evf : ServedComplete(b) /\ Outcome(b, l) # "none"}

Max(S) == CHOOSE x \in S : \A y \in S : y <= x

\* The status of lead l after one invocation run alone: the batches are
\* reconciled in creation order, the last writer's status stays.
AloneStatus(l) ==
  IF Writers(l) = {} THEN "unverified" ELSE Outcome(Max(Writers(l)), l)

AllDone == \A w \in Workers : wk[w].pc = "done"

\* C4 as stated: no step is taken for a batch that has processed = true (no
\* status fetch, no download, no write to its row, no lead update).
C4_NeverRevisited ==
  [][\A w \in Workers :
       (wk[w].pc \in BatchPcs /\ Step(w)) => ~evf[Cur(wk[w])].processed]_vars

\* C4 amended: processed, once true, stays true, and an invocation that
\* begins selects no batch that has processed = true; an invocation that
\* selected the batch earlier may still poll and reconcile it.
C4_NotSelectedAgain ==
  [][/\ \A b \in DOMAIN evf : evf[b].processed => evf'[b].processed
     /\ \A w \in Workers :
          (wk[w].pc \in {"idle", "done"} /\ Step(w)) =>
            \A b \in Range(wk'[w].files) : ~evf[b].processed]_vars

\* The second invocation began after batch 1 got processed = true, and
\* selected batch 2 only.
C4_Witness ==
  /\ evf[1].processed
  /\ wk[2].pc = "poll" /\ wk[2].files = <<2>>
  /\ wk[2].polled = <<>>

\* C5: an invocation run alone leaves every complete batch with processed =
\* true and AloneStatus on every lead; when the overlapping invocations have
\* all finished, every lead's status and every batch's processed flag are
\* those a single invocation run alone leaves.
C5_OverlapEqualsAlone ==
  LET AsAlone == /\ \A b \in DOMAIN evf : evf[b].processed = ServedComplete(b)
                 /\ \A l \in DOMAIN leads : leads[l].verification_status = AloneStatus(l)
  IN /\ (wk[1].pc = "done" /\ \A w \in Workers \ {1} : wk[w].pc = "idle") => AsAlone
     /\ AllDone => AsAlone

\* Two invocations that both selected and polled both batches have finished;
\* the two batches give lead 3 different statuses, and it has the one of
\* batch 2.
C5_Witness ==
  /\ AllDone
  /\ wk[1].polled = <<1, 2>> /\ wk[2].polled = <<1, 2>>
  /\ Writers(3) = {1, 2}
  /\ Outcome(1, 3) # Outcome(2, 3)
  /\ leads[3].verification_status = Outcome(2, 3)

\* ------------------------------------------------ a second reconciliation

\* The leads a reconciliation by worker record r writes.
Written(r) ==
  {l \in CampaignLeads(Cur(r)) :
     LeadLower(l) \in knownOf(r.okEmails, r.badEmails, r.unknownEmails) \cup Submitted(Cur(r))}

\* C6: when a reconciliation of a batch that already has processed = true
\* ends, with every request successful, processed is still true and every
\* lead it writes has the status the first reconciliation left; when it began
\* with the leads as the first one left them, every lead's status is as the
\* first one left it.
C6_RerunSameResult ==
  [][\A w \in Workers :
       LET r == wk[w]
           b == Cur(r)
       IN (r.pc = "mark" /\ Step(w) /\ evf[b].processed) =>
            /\ evf'[b].processed
            /\ \A l \in Written(r) : leads'[l].verification_status = first[b].st[l]
            /\ r.before = first[b].st => Statuses(leads') = first[b].st]_vars

\* The second invocation has reconciled batch 2 again, beginning with the
\* leads as the first reconciliation left them; lead 1 got two updates.
C6_Witness ==
  /\ first[2].set /\ evf[2].processed
  /\ wk[2].pc = "mark" /\ Cur(wk[2]) = 2
  /\ wk[2].before = first[2].st
  /\ 1 \in Written(wk[2])
  /\ Range(wk[2].okEmails) \cap Range(wk[2].unknownEmails) # {}
  /\ Statuses(leads) = first[2].st

\* ------------------------------------------------------------- progress

\* The provider reports batch b as complete at every poll.
AlwaysComplete(b) ==
  \A i \in env.status[b] : ~InfoOf[i].null /\ Complete(InfoOf[i].status)

\* C7: every pending batch that the provider reports as complete at every
\* poll eventually has processed = true, whatever other batches are pending
\* (processed never goes back to false, so from some point on all of them
\* have it).
C7_CompleteEventuallyProcessed ==
  <>[](\A b \in DOMAIN evf : AlwaysComplete(b) => evf[b].processed)

\* ------------------------------------------------------ a failed listing

\* C11: an invocation whose listing query fails ends at once with the
\* response 500 "error"; the step changes no batch row and no lead, and the
\* invocation has selected and polled no batch.
C11_ListingFailureAbortsTick ==
  /\ [][\A w \in Workers :
          (Step(w) /\ wk[w].pc \in {"idle", "done"} /\ wk'[w].listing = "error") =>
            /\ wk'[w].pc = "done"
            /\ wk'[w].resp = Response(500, "error", 0)
            /\ evf' = evf /\ leads' = leads /\ clock' = clock]_vars
  /\ [](\A w \in Workers :
          wk[w].listing = "error" =>
            wk[w].pc = "done" /\ wk[w].files = <<>> /\ wk[w].polled = <<>>)

\* After a tick that polled batch 1, the listing query of the next tick has
\* failed.
C11_Witness ==
  /\ wk[1].listing = "error" /\ wk[1].pc = "done"
  /\ wk[1].resp = Response(500, "error", 0)
  /\ evf[1].checked_at = 1 /\ ~evf[1].processed

\* ---------------------------------------------------- the four groups

Good == Range(cl.okEmails)
Bad == Range(cl.badEmails)
Unresolved == Range(cl.unknownEmails)
Unaccounted == Range(cl.remainingUnknownEmails)
Uploaded == Range(uploadedOf(cl.emails))

\* In how many of the four groups an email is.
GroupCount(e) ==
  Cardinality({g \in 1..4 : e \in <<Good, Bad, Unresolved, Unaccounted>>[g]})

\* C12 as stated: after classification no email is in all of GOOD, BAD and
\* UNRESOLVED, no email of a result file is in more than one bucket of that
\* file, and every submitted email is in exactly one of the four groups.
C12_GroupsPartition ==
  cl.pc = "done" =>
    /\ Good \cap Bad \cap Unresolved = {}
    /\ Bad \cap Unresolved = {}
    /\ \A e \in Uploaded : GroupCount(e) = 1

\* C12 amended: every parsed line goes to at most one bucket; every submitted
\* email is in at least one of the four groups, and is unaccounted exactly
\* when it is in none of GOOD, BAD, UNRESOLVED; an email is in both BAD and
\* UNRESOLVED exactly when the second file lists it under a label of each set,
\* and only then can it be in all three.
C12_GroupsCover ==
  cl.pc = "done" =>
    /\ \A i \in DOMAIN cl.allPairs : ~(IsBad(cl.allPairs[i]) /\ IsUnk(cl.allPairs[i]))
    /\ \A e \in Uploaded :
         /\ GroupCount(e) >= 1
         /\ e \in Unaccounted <=> e \notin Good \cup Bad \cup Unresolved
    /\ Unaccounted \subseteq Uploaded
    /\ \A e \in Bad \cap Unresolved :
         \E i, j \in DOMAIN cl.allPairs :
           /\ cl.allPairs[i].email = e /\ cl.allPairs[j].email = e
           /\ IsBad(cl.allPairs[i]) /\ IsUnk(cl.allPairs[j])
    /\ (\A i, j \in DOMAIN cl.allPairs :
          cl.allPairs[i].email = cl.allPairs[j].email => i = j)
         => Good \cap Bad \cap Unresolved = {}

\* A submitted email is in all three of GOOD, BAD and UNRESOLVED, and another
\* submitted email is unaccounted.
C12_Witness ==
  /\ cl.pc = "done"
  /\ Ea \in Uploaded /\ Ea \in Good \cap Bad \cap Unresolved
  /\ Eb \in Uploaded /\ Eb \in Unaccounted

\* The pairs parsed from the two result files.
ParsedPairs == Range(cl.okPairs) \cup Range(cl.allPairs)

\* C13: every pair parsed from either result file is in exactly one bucket:
\* label ok in GOOD, a label of badSet in BAD, any other label in UNRESOLVED.
C13_EveryPairInOneBucket ==
  cl.pc \in {"classified", "done"} =>
    \A p \in ParsedPairs :
      /\ IsOk(p) => p.email \in Good /\ p.email \notin Bad \cup Unresolved
      /\ IsBad(p) => p.email \in Bad /\ p.email \notin Good \cup Unresolved
      /\ (~IsOk(p) /\ ~IsBad(p)) => p.email \in Unresolved /\ p.email \notin Good \cup Bad

\* ------------------------------------------------- leads sharing an email

\* The leads of the campaign of the batch at hand whose email is, letter case
\* aside, one of the emails of the g-th call of updateLeadsByEmail.
Targeted(r, g) ==
  {l \in CampaignLeads(Cur(r)) :
     LeadLower(l) \in {toLowerCase(e) :
                         e \in Range(GroupEmails(evf[Cur(r)].emails, r.okEmails,
                                                 r.badEmails, r.unknownEmails, g))}}

\* C14: an update request that succeeds, for a call whose leads fit in one
\* request, gives every lead of the campaign whose email is one of the
\* call's emails, letter case aside, the same status and no others; when a
\* reconciliation ends with no failed request, no two leads of the campaign
\* with the same email, letter case aside, that it wrote differ in status.
C14_SameEmailSameStatus ==
  [][\A w \in Workers :
       LET r == wk[w]
       IN /\ (r.pc = "update" /\ Step(w) /\ leads' # leads
              /\ Cardinality(Targeted(r, r.g)) <= idChunk) =>
               /\ \A l \in Targeted(r, r.g), m \in Targeted(r, r.g) :
                    /\ leads'[l].verification_status = leads'[m].verification_status
                    /\ leads'[l].verification_status \in Verified
                    /\ leads'[l].verification_checked_at = r.nowIso
               /\ \A l \in DOMAIN leads \ Targeted(r, r.g) : leads'[l] = leads[l]
          /\ (r.pc = "mark" /\ Step(w) /\ ~r.failed) =>
               \A l \in Written(r), m \in Written(r) :
                 LeadLower(l) = LeadLower(m) =>
                   leads'[l].verification_status = leads'[m].verification_status]_vars

\* The leads a@x and A@x of campaign 1 have both become verified_ok by one
\* request, the lead a@x of campaign 2 has not.
C14_Witness ==
  \E w \in Workers :
    /\ wk[w].pc \in {"update", "mark"}
    /\ leads[1].verification_status = "verified_ok"
    /\ leads[2].verification_status = "verified_ok"
    /\ leads[1].email # leads[2].email
    /\ leads[1].verification_checked_at = wk[w].nowIso
    /\ leads[2].verification_checked_at = wk[w].nowIso
    /\ leads[4].verification_status = "unverified"

\* ------------------------------------------------------ a file with no result

\* The download of url answered by res gives no line: the link is missing, the
\* answer is not a success, or the body is empty.
NoResult(url, res) ==
  Falsy(url) \/ (res.kind # "throw" /\ (~res.ok \/ res.body = <<>>))

\* The status a reconciliation of the batch at hand by r leaves on lead l.
StatusFromLists(r, l) ==
  IF LeadLower(l) \in Range(r.unknownEmails) THEN "verified_unknown"
  ELSE IF LeadLower(l) \in Range(r.badEmails) THEN "verified_bad"
  ELSE IF LeadLower(l) \in Range(r.okEmails) THEN "verified_ok"
  ELSE "verified_unknown"

\* C15: a download of a complete batch whose link is missing, whose answer is
\* not a success or whose body is empty gives an empty list and the
\* invocation goes on with the batch; a reconciliation in which a file gave
\* nothing and no request failed ends with the leads of the reported and of
\* the submitted emails updated (a submitted email in no list is
\* verified_unknown) and with processed = true.
C15_EmptyFileIsNoError ==
  [][\A w \in Workers :
       LET r == wk[w]
           q == wk'[w]
       IN /\ (r.pc = "link1" /\ Step(w) /\ q.dl # 0
              /\ NoResult(r.info.link1, FileResponses[q.dl])) =>
               q.pc = "link2" /\ q.k = r.k /\ q.okEmails = <<>>
          /\ (r.pc = "link2" /\ Step(w) /\ q.dl # 0
              /\ NoResult(r.info.link2, FileResponses[q.dl])) =>
               /\ q.pc = "leads" /\ q.k = r.k /\ q.okEmails = r.okEmails
               /\ q.badEmails = <<>> /\ q.unknownEmails = <<>>
          /\ (r.pc = "mark" /\ Step(w) /\ ~r.failed /\ evf' # evf
              /\ (r.okEmails = <<>> \/ (r.badEmails = <<>> /\ r.unknownEmails = <<>>))) =>
               /\ evf'[Cur(r)].processed
               /\ q.polled = r.polled
               /\ \A l \in Written(r) :
                    leads'[l].verification_status = StatusFromLists(r, l)]_vars

\* Batch 1 has processed = true after a reconciliation whose first link was
\* missing: lead 3, reported BAD by the second file, is verified_bad and the
\* leads of the submitted email A@x, reported nowhere, are verified_unknown.
C15_Witness ==
  /\ evf[1].processed /\ evf[1].link1 = Null /\ evf[1].link2 # Null
  /\ wk[1].polled = <<1>> /\ wk[1].pc = "poll"
  /\ leads[1].verification_status = "verified_unknown"
  /\ leads[2].verification_status = "verified_unknown"
  /\ leads[3].verification_status = "verified_bad"

\* ------------------------------------------------ emails that match no lead

\* The calls of updateLeadsByEmail, for the batch at hand, in which some email
\* matches a lead of the campaign.
MatchingCalls(r) == {g \in 1..NumGroups : Targeted(r, g) # {}}

\* C16 (every datastore request succeeds): no step creates or removes a lead;
\* after the lead lookup the invocation goes to the first call in which an
\* email matches a lead, or, when no reported or submitted email matches a
\* lead, straight to the write of processed; an update request changes no
\* lead but those matching an email of its call and is followed by the next
\* call with a match or by the write of processed; the write sets processed
\* = true and changes no lead. No step of the reconciliation ends in the
\* catch.
C16_UnmatchedEmailsSkipped ==
  [][/\ DOMAIN leads' = DOMAIN leads
     /\ \A w \in Workers :
          LET r == wk[w]
              q == wk'[w]
              later(g) == {h \in MatchingCalls(r) : h > g}
          IN /\ (r.pc = "leads" /\ Step(w)) =>
                  /\ leads' = leads
                  /\ IF MatchingCalls(r) = {} THEN q.pc = "mark"
                     ELSE q.pc = "update" /\ q.g = CHOOSE g \in MatchingCalls(r) :
                                                     \A h \in MatchingCalls(r) : g <= h
             /\ (r.pc = "update" /\ Step(w)) =>
                  /\ \A l \in DOMAIN leads \ Targeted(r, r.g) : leads'[l] = leads[l]
                  /\ \/ q.pc = "update" /\ q.g \in later(r.g) \cup {r.g}
                     \/ q.pc = "mark" /\ later(r.g) = {}
             /\ (r.pc = "mark" /\ Step(w)) =>
                  evf'[Cur(r)].processed /\ leads' = leads]_vars

\* The invocation is about to write processed for batch 1, of a campaign
\* without leads, for which the provider reported a GOOD and a BAD email and
\* which has submitted emails: no request was issued, no lead was changed.
C16_Witness ==
  /\ wk[1].pc = "mark" /\ Cur(wk[1]) = 1
  /\ evf[1].campaign_id = 3 /\ evf[1].emails # <<>>
  /\ wk[1].okEmails # <<>> /\ wk[1].badEmails # <<>>
  /\ ~wk[1].failed
  /\ leads = InitLeads

\* ------------------------------------------------- the order of the writes

\* The offsets of the requests of a call with n ids.
ChunkOffsets(n) == [k \in 1..((n + idChunk - 1) \div idChunk) |-> (k - 1) * idChunk]

\* The requests of the g-th call and of those after it, in program order, each
\* as call and offset; every lead matches one email of a call at most.
RECURSIVE RequestsFrom(_, _)
RequestsFrom(r, g) ==
  IF g > NumGroups THEN <<>>
  ELSE LET offs == ChunkOffsets(Cardinality(Targeted(r, g)))
       IN [k \in DOMAIN offs |-> <<g, offs[k]>>] \o RequestsFrom(r, g + 1)

\* The requests issued for the batch at hand, each as call and offset.
Issued(r) == [k \in DOMAIN r.issued |-> <<r.issued[k][1], r.issued[k][2]>>]

\* C17: processed is written by the step that follows the last update request
\* only: when it is taken, the requests of the four calls, every chunk of
\* each, have been issued in program order, and no other step changes
\* processed.
C17_ProcessedAfterAllUpdates ==
  [][/\ \A w \in Workers :
          (wk[w].pc = "mark" /\ Step(w)) => Issued(wk[w]) = RequestsFrom(wk[w], 1)
     /\ \A b \in DOMAIN evf :
          evf'[b].processed # evf[b].processed =>
            \E w \in Workers :
              /\ wk[w].pc = "mark" /\ Cur(wk[w]) = b /\ Step(w)
              /\ Issued(wk[w]) = RequestsFrom(wk[w], 1)]_vars

\* Batch 1 has got processed = true after three requests for the GOOD and
\* three for the UNRESOLVED leads; the last request is seen in lead 201.
C17_Witness ==
  /\ evf[1].processed /\ first[1].set
  /\ leads[1].verification_status = "verified_unknown"
  /\ leads[idChunk + 1].verification_status = "verified_unknown"
  /\ leads[ManyLeads].verification_status = "verified_unknown"

\* C18: after a failed update request the next chunk of the same call is
\* issued when there is one, with its own slice of ids, whatever the outcome
\* of the requests before it.
C18_FailedChunkDoesNotStopLoop ==
  [][\A w \in Workers :
       LET r == wk[w]
           q == wk'[w]
       IN (r.pc = "update" /\ Step(w) /\ q.issued[Len(q.issued)][3] = "error"
           /\ r.i + idChunk < Cardinality(Targeted(r, r.g))) =>
            /\ leads' = leads
            /\ q.pc = "update" /\ q.g = r.g /\ q.i = r.i + idChunk
            /\ q.k = r.k]_vars

\* The first chunk of the GOOD leads failed, the second and the third were
\* written.
C18_Witness ==
  /\ Len(wk[1].issued) >= 3
  /\ wk[1].issued[1] = <<1, 0, "error">>
  /\ wk[1].issued[2] = <<1, idChunk, "ok">>
  /\ wk[1].issued[3] = <<1, 2 * idChunk, "ok">>
  /\ leads[1].verification_status = "unverified"
  /\ leads[idChunk + 1].verification_status = "verified_ok"
  /\ leads[ManyLeads].verification_status = "verified_ok"

\* ------------------------------------------------ an email in several lists

\* In how many of okEmails, badEmails, unknownEmails the email of lead l is.
InSeveralLists(r, l) ==
  Cardinality({g \in 1..3 :
                 LeadLower(l) \in Range(<<r.okEmails, r.badEmails, r.unknownEmails>>[g])}) > 1

\* C19: when a reconciliation ends with no failed request, a lead of the
\* campaign whose email is in more than one of the three lists is
\* verified_unknown if the email is UNRESOLVED, else verified_bad (it is then
\* BAD and GOOD).
C19_LaterListOverrides ==
  [][\A w \in Workers :
       LET r == wk[w]
       IN (r.pc = "mark" /\ Step(w) /\ ~r.failed) =>
            \A l \in CampaignLeads(Cur(r)) :
              InSeveralLists(r, l) =>
                leads'[l].verification_status =
                  IF LeadLower(l) \in Range(r.unknownEmails) THEN "verified_unknown"
                  ELSE "verified_bad"]_vars

\* The email a@x is GOOD, BAD and UNRESOLVED for the batch at hand; after
\* the three requests its leads are verified_unknown.
C19_Witness ==
  /\ wk[1].pc = "mark" /\ ~wk[1].failed
  /\ Ea \in Range(wk[1].okEmails) \cap Range(wk[1].badEmails) \cap Range(wk[1].unknownEmails)
  /\ Len(wk[1].issued) >= 3
  /\ leads[1].verification_status = "verified_unknown"
  /\ leads[2].verification_status = "verified_unknown"

\* ------------------------------------------------ what a reconciliation leaves alone

\* The emails the reconciliation at hand has an update for.
Concerned(r) ==
  Range(r.okEmails) \cup Range(r.badEmails) \cup Range(r.unknownEmails)
    \cup Submitted(Cur(r))

\* C20: a step of an invocation changes a lead only when it is an update
\* request of the reconciliation of a batch, the lead is of that batch's
\* campaign and its lower-cased email is GOOD, BAD, UNRESOLVED or submitted
\* with the batch; every other lead keeps verification_status and
\* verification_checked_at, and no lead changes campaign or email.
C20_OnlyConcernedLeadsChange ==
  [][/\ DOMAIN leads' = DOMAIN leads
     /\ \A w \in Workers :
          LET r == wk[w]
          IN Step(w) =>
               \A l \in DOMAIN leads :
                 /\ leads'[l].campaign_id = leads[l].campaign_id
                 /\ leads'[l].email = leads[l].email
                 /\ (\/ leads'[l].verification_status # leads[l].verification_status
                     \/ leads'[l].verification_checked_at # leads[l].verification_checked_at)
                      => /\ r.pc = "update"
                         /\ l \in CampaignLeads(Cur(r))
                         /\ LeadLower(l) \in Concerned(r)]_vars

\* Batch 1, of campaign 1, is reconciled with a@x GOOD and b@x neither
\* reported nor submitted: leads 1 and 2 are verified, lead 3 (b@x, same
\* campaign) and lead 4 (a@x, campaign 2) are as they were.
C20_Witness ==
  /\ wk[1].pc = "mark" /\ ~wk[1].failed /\ Cur(wk[1]) = 1
  /\ evf[1].campaign_id = 1
  /\ Ea \in Range(wk[1].okEmails)
  /\ Eb \notin Concerned(wk[1])
  /\ leads[1].verification_status = "verified_ok"
  /\ leads[2].verification_status = "verified_ok"
  /\ leads[3].verification_status = "unverified" /\ leads[3].verification_checked_at = 0
  /\ leads[4].verification_status = "unverified" /\ leads[4].verification_checked_at = 0
  /\ LeadLower(4) = LeadLower(1)

\* ------------------------------------------------ what stays in a batch row

\* C21: in every step of overlapping invocations the batch table keeps its
\* rows, a batch with processed = true keeps processed = true, and every
\* batch keeps its emails, its campaign_id and its file_id.
C21_ProcessedMonotonic ==
  [][/\ DOMAIN evf' = DOMAIN evf
     /\ \A b \in DOMAIN evf :
          /\ evf[b].processed => evf'[b].processed
          /\ evf'[b].emails = evf[b].emails
          /\ evf'[b].campaign_id = evf[b].campaign_id
          /\ evf'[b].file_id = evf[b].file_id]_vars

\* Two overlapping invocations both selected batch 1, both polled it and went
\* on to batch 2: the row of batch 1 was written by both, processed is true.
C21_Witness ==
  /\ evf[1].processed /\ ~evf[2].processed
  /\ \A w \in {1, 2} : /\ wk[w].files = <<1, 2>>
                       /\ wk[w].k = 2
                       /\ wk[w].polled = <<1>>
  /\ evf[1].emails = BatchEmails(1)

\* ------------------------------------------------ the numeric fields

\* C22: when the answer of the status endpoint has at least 7 fields, the
\* lookup gives a descriptor whose unique, lines and lines_processed are the
\* numbers written in fields 3, 4 and 5, and 0 for a field that is empty or
\* is not a number; the value then written to lines_processed of the batch
\* row is a number.
C22_NumericFieldsDefaultToZero ==
  [][\A w \in Workers :
       LET r == wk[w]
           res == StatusResponses[r.res]
           digits(s) == \A i \in DOMAIN s : \E d \in DOMAIN Digits : Digits[d] = s[i]
           expected(s) == IF digits(trim(s)) THEN Num(DecimalValue(trim(s))) ELSE Num(0)
       IN (r.pc = "info" /\ Step(w) /\ ~FailedLookup(res)) =>
            /\ ~r.info.null
            /\ r.info.unique = expected(Fields(res)[3])
            /\ r.info.lines = expected(Fields(res)[4])
            /\ r.info.lines_processed = expected(Fields(res)[5])
            /\ ~evf'[Cur(r)].lines_processed.nan]_vars

\* ------------------------------------------------ the lines of a result file

\* C23: the pairs parsed from a result file are, in the order of the lines,
\* one pair for every line that, white space around it aside, is not empty,
\* does not begin with the header prefix in any letter case, has a comma and
\* has an "@" after its first comma: the text before the first comma and the
\* text after it, each trimmed and lower-cased. Every other line gives no
\* pair and takes no pair of another line away.
C23_ValidLinesParsedInOrder ==
  LET firstComma(l) == CHOOSE i \in DOMAIN l : l[i] = "," /\ \A j \in 1..(i - 1) : l[j] # ","
      before(l) == SubSeq(l, 1, firstComma(l) - 1)
      after(l) == SubSeq(l, firstComma(l) + 1, Len(l))
      header(l) == /\ Len(l) >= Len(HeaderPrefix)
                   /\ toLowerCase(SubSeq(l, 1, Len(HeaderPrefix))) = HeaderPrefix
      valid(line) == LET l == trim(line)
                     IN /\ l # <<>>
                        /\ ~header(l)
                        /\ \E i \in DOMAIN l : l[i] = ","
                        /\ \E i \in DOMAIN after(l) : after(l)[i] = "@"
      pair(line) == [result |-> toLowerCase(trim(before(trim(line)))),
                     email |-> toLowerCase(trim(after(trim(line))))]
      kept == SelectSeq(cl.lines, valid)
  IN cl.pc = "parsed" => cl.pairs = [k \in DOMAIN kept |-> pair(kept[k])]

\* A file of a header line, a valid line written with spaces and capitals, a
\* line without a comma and a valid line with two commas, ended by "\r\n":
\* the two valid lines are the pairs, in that order.
C23_Witness ==
  /\ cl.pc = "parsed"
  /\ cl.lines = <<<<"E","L","V"," ","R","e","s","u","l","t",",","e","@","m","a","i","l">>,
                 <<" ","I","n","v","a","l","i","d","_","M","X"," ",","," ","B","@","x"," ">>,
                 <<"n","o","t"," ","a"," ","l","i","n","e">>,
                 <<"u","n","k","n","o","w","n",",","b","@","x",",","z">>>>
  /\ includes(cl.text, <<"\r", "\n">>)
  /\ cl.pairs = <<[result |-> <<"i","n","v","a","l","i","d","_","m","x">>, email |-> Eb],
                  [result |-> <<"u","n","k","n","o","w","n">>, email |-> <<"b","@","x",",","z">>]>>

====
